---- MODULE Spec2Model ----
(***************************************************************************)
(* Model of the persistence layer DB (db/index.ts): saveMany walks the     *)
(* tables of an ITableMap, fetches the stored rows for the incoming ids,   *)
(* compares, queues the new and the changed records, persists the queue    *)
(* and dispatches a dbCommit action.  saveMany is an async function: it    *)
(* suspends at `await getMany()` and at `await repo.persist(rows)`, so     *)
(* several calls interleave at these two points.  There is no lock.        *)
(*                                                                         *)
(* typeorm (the version that has Repository.persist) is modelled by what   *)
(* it does: merge(o) and create(o) build a new entity holding the column   *)
(* properties of o; persist(e) loads the row having e's id and updates the *)
(* columns e defines, or inserts a row when there is none (a row without   *)
(* id is inserted under a generated rowid); persist(array) persists every  *)
(* element in a transaction of its own (Promise.all over the elements).    *)
(*                                                                         *)
(* The module also holds the itch: protocol handler of                     *)
(* main/itch-protocol.ts: handleAPIRequest, handleRequest and the          *)
(* protocolHandler that passes the settled promise to Electron's callback. *)
(* It shares no state with DB; SpecProto and SpecProtoFair run it alone.   *)
(***************************************************************************)
EXTENDS Integers, Sequences, FiniteSets, TLC

\* ------------------------------------------------------------------ bounds
MaxId == 2          \* entity ids a batch may name are 1..MaxId
MaxCalls == 2       \* saveMany calls made in one behaviour

\* --------------------------------------------------------------- constants
Undefined == 0      \* JS undefined, as the id of an entity that has none

Procs == {1, 2}                      \* concurrent callers of db.saveMany
Ids == 1..MaxId
RowIds == 1..(MaxId + 1)             \* ids a stored row can have
Values == {"x", "z"}                 \* values a caller sends for a column
DefaultValue == "d"                  \* what the schema stores for an unset column

\* modelMap (./model-map): the tables that have a Model
modelMap == {"games", "users"}
TableNames == modelMap \cup {"bogus"}

\* getColumns(Model) (./get-columns)
getColumns(tableName) == {"id", "a", "b"}

Rows == [id : RowIds, a : Values \cup {DefaultValue}, b : Values \cup {DefaultValue}]

\* --------------------------------------------------------- pure functions

\* The id property of an entity (undefined when it has none).
IdOf(e) == IF "id" \in DOMAIN e THEN e.id ELSE Undefined

\* compareRecords(existing, entity, columns) (./compare-records): true iff
\* every column present in the incoming record equals the stored value.
compareRecords(existingEntity, entity, columns) ==
  \A c \in columns \cap DOMAIN entity : existingEntity[c] = entity[c]

\* repo.merge(entity): a NEW entity with the column properties of its
\* arguments; saveMany passes the incoming record alone.
RepoMerge(tableName, entity) ==
  [c \in DOMAIN entity \cap getColumns(tableName) |-> entity[c]]

\* Mutant of RepoCreate: the assignment of the key to id is missing.
RepoCreateNoId(tableName, entity, id) ==
  [c \in DOMAIN entity \cap getColumns(tableName) |-> entity[c]]

\* repo.create(entity); (existingEntity as any).id = id
RepoCreate(tableName, entity, id) ==
  [c \in (DOMAIN entity \cap getColumns(tableName)) \cup {"id"} |->
      IF c = "id" THEN id ELSE entity[c]]

\* Object.keys(entities): integer-like keys come in ascending order.
RECURSIVE KeysFrom(_, _)
KeysFrom(entities, k) ==
  IF k > MaxId THEN <<>>
  ELSE (IF k \in DOMAIN entities THEN <<k>> ELSE <<>>) \o KeysFrom(entities, k + 1)

ObjectKeys(entities) == KeysFrom(entities, 1)

\* getMany(): the stored rows whose id is one of entityIds.
GetMany(tbl, entities) == {r \in tbl : r.id \in DOMAIN entities}

\* The for loop over entityIds (lines 99-115): the queue of rows to persist.
RECURSIVE BuildRows(_, _, _, _)
BuildRows(tableName, entities, savedRows, ids) ==
  IF ids = <<>> THEN <<>>
  ELSE LET id == Head(ids)
           entity == entities[id]
           ex == {r \in savedRows : r.id = id}
           rest == BuildRows(tableName, entities, savedRows, Tail(ids))
       IN IF ex # {}
          THEN IF compareRecords(CHOOSE r \in ex : TRUE, entity, getColumns(tableName))
               THEN rest
               ELSE <<RepoMerge(tableName, entity)>> \o rest
          ELSE <<RepoCreate(tableName, entity, id)>> \o rest

\* Mutant of NumUpToDate: the counter is incremented before the comparison.
NumUpToDateExisting(tableName, entities, savedRows) ==
  Cardinality({id \in DOMAIN entities : \E r \in savedRows : r.id = id})

\* numUpToDate of the same loop.
NumUpToDate(tableName, entities, savedRows) ==
  Cardinality({id \in DOMAIN entities :
     \E r \in savedRows : r.id = id
        /\ compareRecords(r, entities[id], getColumns(tableName))})

\* _.pluck(rows, "id")
RECURSIVE Pluck(_)
Pluck(rs) == IF rs = <<>> THEN <<>> ELSE <<IdOf(Head(rs))>> \o Pluck(Tail(rs))

\* ------------------------------------------------------ typeorm persist

MaxOf(S) == IF S = {} THEN 0 ELSE CHOOSE m \in S : \A n \in S : n <= m

\* sqlite's rowid for a row inserted without id.
NextRowId(tbl) == MaxOf({r.id : r \in tbl}) + 1

\* The stored row after the columns that `row` defines are written to `old`.
Overlay(old, row, id) ==
  [c \in {"id", "a", "b"} |->
     IF c = "id" THEN id ELSE IF c \in DOMAIN row THEN row[c] ELSE old[c]]

DefaultRow(id) == [id |-> id, a |-> DefaultValue, b |-> DefaultValue]

\* A row can be written unless it needs a generated id the bound excludes.
CanPersist(tbl, row) == "id" \in DOMAIN row \/ NextRowId(tbl) \in RowIds

\* repo.persist(row) of one entity that succeeds.
PersistOne(tbl, row) ==
  IF "id" \in DOMAIN row
  THEN IF \E r \in tbl : r.id = row.id
       THEN {IF r.id = row.id THEN Overlay(r, row, r.id) ELSE r : r \in tbl}
       ELSE tbl \cup {Overlay(DefaultRow(row.id), row, row.id)}
  ELSE tbl \cup {Overlay(DefaultRow(NextRowId(tbl)), row, NextRowId(tbl))}

\* repo.persist(rows): every element in its own transaction, in queue
\* order; the elements whose index is in `ok` commit, the others fail.
RECURSIVE PersistRows(_, _, _, _)
PersistRows(tbl, rs, i, ok) ==
  IF i > Len(rs) THEN tbl
  ELSE PersistRows(IF i \in ok THEN PersistOne(tbl, rs[i]) ELSE tbl, rs, i + 1, ok)

\* The outcome `ok` is possible: every committing row can be written.
RECURSIVE Possible(_, _, _, _)
Possible(tbl, rs, i, ok) ==
  IF i > Len(rs) THEN TRUE
  ELSE IF i \in ok
       THEN CanPersist(tbl, rs[i]) /\ Possible(PersistOne(tbl, rs[i]), rs, i + 1, ok)
       ELSE Possible(tbl, rs, i + 1, ok)

\* ------------------------------------------- saveMany, run without suspension

\* One iteration of the for loop over the tables (lines 89-121) whose
\* persist commits every row: the table afterwards.
SaveTable(tbl, tableName, entities) ==
  LET q == BuildRows(tableName, entities, GetMany(tbl, entities), ObjectKeys(entities))
  IN PersistRows(tbl, q, 1, 1..Len(q))

\* saveMany(B) from table i on, every persist succeeding: the store afterwards.
RECURSIVE SaveManyFrom(_, _, _)
SaveManyFrom(st, B, i) ==
  IF i > Len(B) THEN st
  ELSE LET T == B[i].tableName
       IN IF T \notin modelMap
          THEN SaveManyFrom(st, B, i + 1)
          ELSE SaveManyFrom([st EXCEPT ![T] = SaveTable(st[T], T, B[i].entities)], B, i + 1)

SaveManyStore(st, B) == SaveManyFrom(st, B, 1)

\* The keys of `entities` that are new or changed against the table.
ChangedKeys(tbl, tableName, entities) ==
  {k \in DOMAIN entities :
     \A r \in tbl : r.id = k => ~compareRecords(r, entities[k], getColumns(tableName))}

\* The dbCommit actions saveMany(B) dispatches from table i on when every
\* persist succeeds, as (tableName, updated) pairs in order.
RECURSIVE SaveManyEventsFrom(_, _, _)
SaveManyEventsFrom(st, B, i) ==
  IF i > Len(B) THEN <<>>
  ELSE LET T == B[i].tableName
       IN IF T \notin modelMap
          THEN SaveManyEventsFrom(st, B, i + 1)
          ELSE LET q == BuildRows(T, B[i].entities, GetMany(st[T], B[i].entities),
                                  ObjectKeys(B[i].entities))
                   after == [st EXCEPT ![T] = PersistRows(st[T], q, 1, 1..Len(q))]
               IN (IF Len(q) > 0 THEN <<[tableName |-> T, updated |-> Pluck(q)]>> ELSE <<>>)
                    \o SaveManyEventsFrom(after, B, i + 1)

SaveManyEvents(st, B) == SaveManyEventsFrom(st, B, 1)

\* ------------------------------------------------------------- inputs

Other(k) == (k % MaxId) + 1

\* The records callers send for key k: a partial record carrying its id, one
\* that omits the id (saveOne takes the id apart from a Partial<T>), and one
\* whose id differs from its key.
Shapes == {"az", "ax", "noid", "wrongid"}

Shape(s, k) ==
  CASE s = "az" -> [id |-> k, a |-> "z"]
    [] s = "ax" -> [id |-> k, a |-> "x"]
    [] s = "noid" -> [b |-> "z"]
    [] s = "wrongid" -> [id |-> Other(k), a |-> "z"]

TableSeqs == {<<"games", "users">>, <<"bogus", "games">>}

\* Entity maps for one id or for every id, all records of one shape.
KeySets == {{k} : k \in Ids} \cup {Ids}

EntityMaps == {[k \in S |-> Shape(s, k)] : S \in KeySets, s \in Shapes}

\* An ITableMap, as the sequence of its (tableName, entities) properties.
Batches ==
  {[i \in 1..Len(ts) |-> [tableName |-> ts[i], entities |-> m]] :
      ts \in TableSeqs, m \in EntityMaps}

Row(i, a, b) == [id |-> i, a |-> a, b |-> b]

\* What the file holds at load(): rows to merge with (games 1 and 2, users 1)
\* and a key with no row (users 2).
SeededStore ==
  [t \in modelMap |->
     IF t = "games" THEN {Row(1, "z", "x"), Row(2, "x", "x")} ELSE {Row(1, "x", "x")}]

InitStores == {SeededStore}

\* -------------------------------------------------------------- state

\* ------------------------------------------- itch: protocol, pure parts
\* (main/itch-protocol.ts.)  A string is a sequence of tokens: "/" and ":"
\* are tokens of their own, and so is every other run of characters the
\* handler never looks into.

MaxReq == 2         \* requests handed to protocolHandler in one behaviour

Str(t) == <<t>>

ItchPrefix == <<"itch", ":">>        \* "itch:"

\* String.prototype.startsWith.
StartsWith(str, prefix) ==
  /\ Len(str) >= Len(prefix)
  /\ SubSeq(str, 1, Len(prefix)) = prefix

\* String.prototype.toLowerCase, on the header names a request carries.
ToLowerCase(k) ==
  CASE k = "Origin" -> "origin"
    [] k = "ORIGIN" -> "origin"
    [] k = "Referer" -> "referer"
    [] OTHER -> k

\* pathname.replace(/^\//, "").
StripSlash(str) == IF str # <<>> /\ Head(str) = "/" THEN Tail(str) ELSE str

\* [a, b].filter(s => s.length > 0).join("/").
JoinNonEmpty(a, b) ==
  IF a = <<>> THEN b
  ELSE IF b = <<>> THEN a
  ELSE a \o <<"/">> \o b

RECURSIVE SplitFrom(_, _)
SplitFrom(str, cur) ==
  IF str = <<>> THEN <<cur>>
  ELSE IF Head(str) = "/" THEN <<cur>> \o SplitFrom(Tail(str), <<>>)
  ELSE SplitFrom(Tail(str), Append(cur, Head(str)))

\* String.prototype.split("/"): "" splits into [""].
Split(str) == SplitFrom(str, <<>>)

\* route.split("/") of handleRequest.
RouteElements(url) == Split(JoinNonEmpty(url.hostname, StripSlash(url.pathname)))

\* Object.keys(req.headers).find(x => x.toLowerCase() == "origin"): the
\* index of the first such header, 0 when there is none.
RECURSIVE FindOrigin(_, _)
FindOrigin(headers, i) ==
  IF i > Len(headers) THEN 0
  ELSE IF ToLowerCase(headers[i].k) = "origin" THEN i
  ELSE FindOrigin(headers, i + 1)

\* What a response body or an error holds: text, and for the JSON of the
\* websocket payload its two fields.
Text(t) == [type |-> "text", address |-> "", secret |-> "", text |-> t]

\* JSON.stringify(payload).
JSONStringify(payload) ==
  [type |-> "json", address |-> payload.address, secret |-> payload.secret, text |-> <<>>]

\* asReadable(payload): a stream that yields the payload and ends.
asReadable(payload) == <<payload>>

ApiHeaders(contentType) ==
  {<<"content-type", contentType>>, <<"access-control-allow-origin", "*">>}

\* new HTTPError(statusCode, headers, data).
HTTPError(statusCode, headers, data) ==
  [kind |-> "HTTPError", statusCode |-> statusCode, headers |-> headers, value |-> Text(data)]

Thrown(message) ==
  [kind |-> "Error", statusCode |-> 0, headers |-> {}, value |-> Text(<<"Error: ", message>>)]

Returned(payload) ==
  [kind |-> "return", statusCode |-> 0, headers |-> {}, value |-> JSONStringify(payload)]

ForbiddenCause(headers) ==
  IF FindOrigin(headers, 1) = 0 THEN <<"Missing origin">>
  ELSE IF ~StartsWith(headers[FindOrigin(headers, 1)].v, ItchPrefix)
       THEN <<"Forbidden origin ">> \o headers[FindOrigin(headers, 1)].v
       ELSE <<>>

IsWebsocketAddress(elements) ==
  Len(elements) = 1 /\ elements[1] = Str("websocket-address")

\* Mutant of handleAPIRequest: the route is looked at before the origin.
handleAPIRequestRouteFirst(request, elements, ws) ==
  IF IsWebsocketAddress(elements) /\ ws # <<>> THEN Returned(ws[1])
  ELSE IF ForbiddenCause(request.headers) # <<>>
       THEN HTTPError(403, ApiHeaders("text/plain"), ForbiddenCause(request.headers))
       ELSE HTTPError(404, {}, <<"API route not found">>)

\* handleAPIRequest(req, elements), with ms.websocket as it is at the call.
handleAPIRequest(request, elements, ws) ==
  IF ForbiddenCause(request.headers) # <<>>
  THEN HTTPError(403, ApiHeaders("text/plain"), ForbiddenCause(request.headers))
  ELSE IF IsWebsocketAddress(elements)
       THEN IF ws = <<>>
            THEN Thrown("WebSocket not initialized yet! (this is a bug)")
            ELSE Returned(ws[1])
       ELSE HTTPError(404, {}, <<"API route not found">>)

\* The try/catch around handleAPIRequest in handleRequest.
ApiResponse(outcome) ==
  CASE outcome.kind = "return" ->
         [statusCode |-> 200, headers |-> ApiHeaders("application/json"),
          data |-> asReadable(outcome.value)]
    [] outcome.kind = "HTTPError" ->
         [statusCode |-> outcome.statusCode, headers |-> outcome.headers,
          data |-> asReadable(outcome.value)]
    [] OTHER ->
         [statusCode |-> 500, headers |-> ApiHeaders("text/plain"),
          data |-> asReadable(Text(<<"Internal error: ">> \o outcome.value.text))]

\* The default branch: anything that is not under assets is index.html.
AssetElements(elements) ==
  IF Len(elements) = 0 \/ elements[1] # Str("assets")
  THEN <<Str("assets"), Str("index.html")>>
  ELSE elements

\* headers[k] = v.
SetHeader(headers, k, v) == {h \in headers : h[1] # k} \cup {<<k, v>>}

\* convertHeaders(input): a string is kept, of an array the first element,
\* a header that is undefined is left out.
convertHeaders(input) ==
  { <<h.k, h.v[1]>> : h \in {x \in input : x.type \in {"string", "object"}} }

\* The response built from the dev server's answer.
UpstreamResponse(msg) ==
  [statusCode |-> msg.statusCode,
   headers |-> SetHeader(SetHeader(convertHeaders(msg.headers), "cache-control", "no-cache"),
                         "access-control-allow-origin", "*"),
   data |-> <<Text(msg.body)>>]

\* mime.lookup(fsPath) || "application/octet-stream", by the last element.
ContentType(elements) ==
  IF elements[Len(elements)] = Str("index.html") THEN "text/html"
  ELSE "application/octet-stream"

\* The response built from the content of the asset file.
FileResponse(elements, content) ==
  [statusCode |-> 200,
   headers |-> {<<"server", "itch">>, <<"content-length", ToString(Len(content))>>,
                <<"content-type", ContentType(elements)>>,
                <<"access-control-allow-origin", "*">>,
                <<"cache-control", "public, max-age=31536000">>},
   data |-> asReadable(Text(content))]

\* The response of the catch handler of protocolHandler.
ErrorResponse(e) ==
  [statusCode |-> 500, headers |-> {<<"content-type", "text/plain">>},
   data |-> asReadable(Text(e))]

\* ------------------------------------------- itch: protocol, inputs

Url(hostname, pathname) == [hostname |-> hostname, pathname |-> pathname]

\* itch://api/websocket-address and its near misses, and pages and assets.
Urls ==
  { Url(Str("api"), <<"/", "websocket-address">>),
    Url(<<>>, <<"/", "api", "/", "websocket-address">>),
    Url(Str("api"), <<"/", "websocket-address", "/">>),
    Url(Str("api"), <<"/", "profile">>),
    Url(Str("api"), <<>>),
    Url(Str("app"), <<"/", "api", "/", "websocket-address">>),
    Url(Str("app"), <<"/", "assets", "/", "main.js">>),
    Url(Str("app"), <<>>),
    Url(<<>>, <<"/">>) }

Evil == <<"https", ":", "/", "/", "evil">>

Origins ==
  { <<>>, <<"itch", ":">>, <<"itch", ":", "/", "/", "app">>, <<"itch">>,
    <<"ITCH", ":">>, Evil, <<"x", "itch", ":">> }

Header(k, v) == [k |-> k, v |-> v]

HeaderLists ==
  {<<>>}
    \cup { <<Header("origin", v)>> : v \in Origins }
    \cup { <<Header("Origin", v)>> : v \in {<<"itch", ":">>, Evil} }
    \cup { <<Header("referer", <<"itch", ":">>)>> }
    \cup { <<Header("referer", <<"itch", ":">>), Header("ORIGIN", v)>> :
             v \in {<<"itch", ":", "/", "/", "app">>, Evil} }
    \cup { <<Header("Origin", <<"itch", ":">>), Header("origin", Evil)>>,
           <<Header("Origin", Evil), Header("origin", <<"itch", ":">>)>> }

Requests == [url : Urls, headers : HeaderLists]

WebSockets == { <<>>, <<[address |-> "ws://127.0.0.1:1", secret |-> "s3cr3t"]>> }

IncomingHeaders ==
  { {},
    { [k |-> "content-type", type |-> "string", v |-> <<"text/html">>],
      [k |-> "set-cookie", type |-> "object", v |-> <<"a=1", "b=2">>],
      [k |-> "cache-control", type |-> "string", v |-> <<"max-age=60">>],
      [k |-> "etag", type |-> "undefined", v |-> <<>>] } }

IncomingMessages ==
  [statusCode : {200, 404}, headers : IncomingHeaders, body : {<<"bundle">>}]

Contents == { <<>>, <<"bytes">> }

VARIABLES
  store,        \* the sqlite file: table name -> set of rows
  events,       \* the dbCommit actions dispatched to the metal store, in order
  log,          \* the lines logger.info wrote (lines 86 and 122)
  commits,      \* history: the (call, table) whose persist fully committed, in order
  pc,           \* where each caller's saveMany is
  batch,        \* entityTables of the call
  ti,           \* index of the table the for loop is at
  existingEntities, \* savedRows / existingEntities of the table being processed
  rows,         \* the queue `rows`
  numUpToDate,  \* the counter numUpToDate
  cid,          \* number of the call a caller is in
  ncalls,       \* calls made so far
  prev,         \* history: the batch of the caller's previous call and how it ended
  nPersist,     \* history: repo.persist calls made by the current call
  store0,       \* history: the store when the current call started
  evs0,         \* history: Len(events) when the current call started
  connected,    \* conn.isConnected: load() has run and close() has not
  op,           \* the method of DB each caller's current call is
  deleteSpec,   \* deleteSpec.entities of the call, or (tableName, id) of deleteEntity
  dbPath,       \* this.dbPath
  removes,      \* history: the (call, table) whose repo.remove resolved, in order
  conn0,        \* history: connected when the current call started
  development,  \* env.development
  websocket,    \* ms.websocket: <<>> while not initialized, else <<[address, secret]>>
  nreq,         \* requests handed to protocolHandler so far
  req,          \* the Electron.Request of the latest invocation of protocolHandler
  hpc,          \* where that invocation is
  upstream,     \* the http.IncomingMessage the dev server answered with
  res,          \* what the promise of handleRequest settled with
  cbs           \* the responses the callback cb was invoked with, in order

vars == <<store, events, log, commits, pc, batch, ti, existingEntities, rows, numUpToDate, cid,
          ncalls, prev, nPersist, store0, evs0, connected, op, deleteSpec,
          dbPath, removes, conn0>>

\* The state of the itch: protocol handler, which no method of DB touches.
protoVars == <<development, websocket, nreq, req, hpc, upstream, res, cbs>>

\* What the steps of saveMany leave alone.
lifeVars == <<connected, op, deleteSpec, dbPath, removes, conn0>>

NoBatch == <<>>

TableAt(p) == batch[p][ti[p]]

\* The protocol handler is built and no request has reached it.
ProtoStart(dev, ws) ==
  /\ development = dev
  /\ websocket = ws
  /\ nreq = 0
  /\ req = <<>>
  /\ hpc = "idle"
  /\ upstream = <<>>
  /\ res = <<>>
  /\ cbs = <<>>

Locals(s) ==
  /\ pc = [p \in Procs |-> IF p \in s THEN "idle" ELSE "off"]
  /\ batch = [p \in Procs |-> NoBatch]
  /\ ti = [p \in Procs |-> 1]
  /\ existingEntities = [p \in Procs |-> {}]
  /\ rows = [p \in Procs |-> <<>>]
  /\ numUpToDate = [p \in Procs |-> 0]
  /\ cid = [p \in Procs |-> 0]
  /\ ncalls = 0
  /\ prev = [p \in Procs |-> [batch |-> NoBatch, ok |-> FALSE]]
  /\ nPersist = [p \in Procs |-> 0]
  /\ store0 = [p \in Procs |-> store]
  /\ evs0 = [p \in Procs |-> 0]
  /\ connected = TRUE
  /\ op = [p \in Procs |-> "none"]
  /\ deleteSpec = [p \in Procs |-> <<>>]
  /\ dbPath = "path"
  /\ removes = <<>>
  /\ conn0 = [p \in Procs |-> TRUE]

\* After load(): the db holds what the file held; nothing is in flight.
Init ==
  /\ store \in InitStores
  /\ events = <<>>
  /\ log = <<>>
  /\ commits = <<>>
  /\ Locals(Procs)
  /\ ProtoStart(FALSE, <<>>)

\* The same with a single caller, whose calls run one after the other.
InitSeq ==
  /\ store \in InitStores
  /\ events = <<>>
  /\ log = <<>>
  /\ commits = <<>>
  /\ Locals({1})
  /\ ProtoStart(FALSE, <<>>)

\* ------------------------------------------------------------- actions

\* db.saveMany(entityTables) is called (line 79).
Call(p) ==
  /\ pc[p] \in {"idle", "done", "failed"}
  /\ ncalls < MaxCalls
  /\ \E B \in Batches :
       /\ batch' = [batch EXCEPT ![p] = B]
       /\ prev' = [prev EXCEPT ![p] = [batch |-> batch[p], ok |-> pc[p] = "done"]]
  /\ pc' = [pc EXCEPT ![p] = "loop"]
  /\ ti' = [ti EXCEPT ![p] = 1]
  /\ existingEntities' = [existingEntities EXCEPT ![p] = {}]
  /\ rows' = [rows EXCEPT ![p] = <<>>]
  /\ numUpToDate' = [numUpToDate EXCEPT ![p] = 0]
  /\ ncalls' = ncalls + 1
  /\ cid' = [cid EXCEPT ![p] = ncalls + 1]
  /\ nPersist' = [nPersist EXCEPT ![p] = 0]
  /\ store0' = [store0 EXCEPT ![p] = store]
  /\ evs0' = [evs0 EXCEPT ![p] = Len(events)]
  /\ op' = [op EXCEPT ![p] = "saveMany"]
  /\ conn0' = [conn0 EXCEPT ![p] = connected]
  /\ UNCHANGED <<store, events, log, commits, connected, deleteSpec, dbPath, removes>>
  /\ UNCHANGED protoVars

LogLine(p, kind, total, skipped) ==
  [call |-> cid[p], tableName |-> TableAt(p).tableName, kind |-> kind,
   saved |-> total - skipped, total |-> total, upToDate |-> skipped]

\* Mutant of SkipUnknown: `break` in place of `continue`.
SkipUnknownBreak(p) ==
  /\ pc[p] = "loop"
  /\ ti[p] <= Len(batch[p])
  /\ TableAt(p).tableName \notin modelMap
  /\ log' = Append(log, LogLine(p, "dunno", Cardinality(DOMAIN TableAt(p).entities), 0))
  /\ ti' = [ti EXCEPT ![p] = Len(batch[p]) + 1]
  /\ UNCHANGED lifeVars
  /\ UNCHANGED <<store, events, commits, pc, batch, existingEntities, rows, numUpToDate,
                 cid, ncalls, prev, nPersist, store0, evs0>>
  /\ UNCHANGED protoVars

\* Lines 84-88: no Model for the table: log and continue.
SkipUnknown(p) ==
  /\ pc[p] = "loop"
  /\ ti[p] <= Len(batch[p])
  /\ TableAt(p).tableName \notin modelMap
  /\ log' = Append(log, LogLine(p, "dunno", Cardinality(DOMAIN TableAt(p).entities), 0))
  /\ ti' = [ti EXCEPT ![p] = ti[p] + 1]
  /\ UNCHANGED lifeVars
  /\ UNCHANGED <<store, events, commits, pc, batch, existingEntities, rows, numUpToDate, cid, ncalls,
                 prev, nPersist, store0, evs0>>
  /\ UNCHANGED protoVars

\* Mutant of FetchUpToDate: the `rows.length > 0` test is missing, the empty
\* queue is persisted and dbCommit is dispatched.
FetchUpToDateDispatch(p) ==
  /\ pc[p] = "loop"
  /\ ti[p] <= Len(batch[p])
  /\ TableAt(p).tableName \in modelMap
  /\ connected
  /\ LET T == TableAt(p).tableName
         entities == TableAt(p).entities
         savedRows == GetMany(store[T], entities)
         q == BuildRows(T, entities, savedRows, ObjectKeys(entities))
         n == NumUpToDate(T, entities, savedRows)
     IN /\ Len(q) = 0
        /\ log' = Append(log, LogLine(p, "saved", Cardinality(DOMAIN entities), n))
        /\ numUpToDate' = [numUpToDate EXCEPT ![p] = n]
        /\ existingEntities' = [existingEntities EXCEPT ![p] = savedRows]
        /\ rows' = [rows EXCEPT ![p] = q]
        /\ events' = Append(events, [call |-> cid[p], tableName |-> T, updated |-> <<>>])
  /\ ti' = [ti EXCEPT ![p] = ti[p] + 1]
  /\ UNCHANGED lifeVars
  /\ UNCHANGED <<store, commits, pc, batch, cid, ncalls, prev, nPersist, store0, evs0>>
  /\ UNCHANGED protoVars

\* Lines 89-116 with an empty queue, then 122: the query runs against the
\* store, the loop finds every record up to date, nothing is persisted.
FetchUpToDate(p) ==
  /\ pc[p] = "loop"
  /\ ti[p] <= Len(batch[p])
  /\ TableAt(p).tableName \in modelMap
  /\ connected
  /\ LET T == TableAt(p).tableName
         entities == TableAt(p).entities
         savedRows == GetMany(store[T], entities)
         q == BuildRows(T, entities, savedRows, ObjectKeys(entities))
         n == NumUpToDate(T, entities, savedRows)
     IN /\ Len(q) = 0
        /\ log' = Append(log, LogLine(p, "saved", Cardinality(DOMAIN entities), n))
        /\ numUpToDate' = [numUpToDate EXCEPT ![p] = n]
        /\ existingEntities' = [existingEntities EXCEPT ![p] = savedRows]
        /\ rows' = [rows EXCEPT ![p] = q]
  /\ ti' = [ti EXCEPT ![p] = ti[p] + 1]
  /\ UNCHANGED lifeVars
  /\ UNCHANGED <<store, events, commits, pc, batch, cid, ncalls, prev, nPersist,
                 store0, evs0>>
  /\ UNCHANGED protoVars

\* Mutant of FetchQueue: store.dispatch(dbCommit) placed before the
\* `await repo.persist(rows)`.
FetchQueueDispatchFirst(p) ==
  /\ pc[p] = "loop"
  /\ ti[p] <= Len(batch[p])
  /\ TableAt(p).tableName \in modelMap
  /\ connected
  /\ LET T == TableAt(p).tableName
         entities == TableAt(p).entities
         savedRows == GetMany(store[T], entities)
         q == BuildRows(T, entities, savedRows, ObjectKeys(entities))
         n == NumUpToDate(T, entities, savedRows)
     IN /\ Len(q) > 0
        /\ numUpToDate' = [numUpToDate EXCEPT ![p] = n]
        /\ existingEntities' = [existingEntities EXCEPT ![p] = savedRows]
        /\ rows' = [rows EXCEPT ![p] = q]
        /\ events' = Append(events, [call |-> cid[p], tableName |-> T, updated |-> Pluck(q)])
  /\ pc' = [pc EXCEPT ![p] = "persist"]
  /\ nPersist' = [nPersist EXCEPT ![p] = nPersist[p] + 1]
  /\ UNCHANGED lifeVars
  /\ UNCHANGED <<store, log, commits, batch, ti, cid, ncalls, prev, store0, evs0>>
  /\ UNCHANGED protoVars

\* Lines 89-119 with a non-empty queue: repo.persist(rows) is called and the
\* call suspends on it.
FetchQueue(p) ==
  /\ pc[p] = "loop"
  /\ ti[p] <= Len(batch[p])
  /\ TableAt(p).tableName \in modelMap
  /\ connected
  /\ LET T == TableAt(p).tableName
         entities == TableAt(p).entities
         savedRows == GetMany(store[T], entities)
         q == BuildRows(T, entities, savedRows, ObjectKeys(entities))
         n == NumUpToDate(T, entities, savedRows)
     IN /\ Len(q) > 0
        /\ numUpToDate' = [numUpToDate EXCEPT ![p] = n]
        /\ existingEntities' = [existingEntities EXCEPT ![p] = savedRows]
        /\ rows' = [rows EXCEPT ![p] = q]
  /\ pc' = [pc EXCEPT ![p] = "persist"]
  /\ nPersist' = [nPersist EXCEPT ![p] = nPersist[p] + 1]
  /\ UNCHANGED lifeVars
  /\ UNCHANGED <<store, events, log, commits, batch, ti, cid, ncalls, prev, store0, evs0>>
  /\ UNCHANGED protoVars

\* repo.persist(rows) resolves: every row committed.
PersistOk(p) ==
  /\ pc[p] = "persist"
  /\ LET T == TableAt(p).tableName
         all == 1..Len(rows[p])
     IN /\ Possible(store[T], rows[p], 1, all)
        /\ store' = [store EXCEPT ![T] = PersistRows(store[T], rows[p], 1, all)]
        /\ commits' = Append(commits, [call |-> cid[p], tableName |-> T])
  /\ pc' = [pc EXCEPT ![p] = "dispatch"]
  /\ UNCHANGED lifeVars
  /\ UNCHANGED <<events, log, batch, ti, existingEntities, rows, numUpToDate, cid, ncalls, prev,
                 nPersist, store0, evs0>>
  /\ UNCHANGED protoVars

\* Mutant of PersistFail: the failure rolls back every table the call wrote.
PersistFailRollback(p) ==
  /\ pc[p] = "persist"
  /\ store' = store0[p]
  /\ pc' = [pc EXCEPT ![p] = "failed"]
  /\ UNCHANGED lifeVars
  /\ UNCHANGED <<events, log, commits, batch, ti, existingEntities, rows, numUpToDate,
                 cid, ncalls, prev, nPersist, store0, evs0>>
  /\ UNCHANGED protoVars

\* repo.persist(rows) rejects: at least one row failed; the rows in `ok`
\* committed all the same.  The exception leaves the for loop and saveMany.
PersistFail(p) ==
  /\ pc[p] = "persist"
  /\ LET T == TableAt(p).tableName
         all == 1..Len(rows[p])
     IN \E ok \in (SUBSET all) \ {all} :
          /\ Possible(store[T], rows[p], 1, ok)
          /\ store' = [store EXCEPT ![T] = PersistRows(store[T], rows[p], 1, ok)]
  /\ pc' = [pc EXCEPT ![p] = "failed"]
  /\ UNCHANGED lifeVars
  /\ UNCHANGED <<events, log, commits, batch, ti, existingEntities, rows, numUpToDate, cid, ncalls,
                 prev, nPersist, store0, evs0>>
  /\ UNCHANGED protoVars

\* Lines 120-123 after the await: dispatch dbCommit, log, next table.
Dispatch(p) ==
  /\ pc[p] = "dispatch"
  /\ events' = Append(events, [call |-> cid[p], tableName |-> TableAt(p).tableName,
                               updated |-> Pluck(rows[p])])
  /\ log' = Append(log, LogLine(p, "saved", Cardinality(DOMAIN TableAt(p).entities),
                                numUpToDate[p]))
  /\ ti' = [ti EXCEPT ![p] = ti[p] + 1]
  /\ pc' = [pc EXCEPT ![p] = "loop"]
  /\ UNCHANGED lifeVars
  /\ UNCHANGED <<store, commits, batch, existingEntities, rows, numUpToDate, cid, ncalls, prev,
                 nPersist, store0, evs0>>
  /\ UNCHANGED protoVars

\* The for loop is over: saveMany resolves (line 125).
Return(p) ==
  /\ pc[p] = "loop"
  /\ ti[p] > Len(batch[p])
  /\ pc' = [pc EXCEPT ![p] = "done"]
  /\ UNCHANGED lifeVars
  /\ UNCHANGED <<store, events, log, commits, batch, ti, existingEntities, rows, numUpToDate, cid,
                 ncalls, prev, nPersist, store0, evs0>>
  /\ UNCHANGED protoVars

\* ------------------------------------------- saveOne, deletion, close

\* deleteSpec.entities: table name -> ids, in key order.
DeleteSpecs ==
  { [i \in 1..Len(ts) |-> [tableName |-> ts[i], ids |-> S]] : ts \in TableSeqs, S \in KeySets }

\* The records saveOne is called with for a key.
OneShapes == {"az", "noid"}

\* The entry of a method of DB: a new call of `kind` by caller p.
Enter(p, kind, B, D, at) ==
  /\ pc[p] \in {"idle", "done", "failed"}
  /\ ncalls < MaxCalls
  /\ batch' = [batch EXCEPT ![p] = B]
  /\ deleteSpec' = [deleteSpec EXCEPT ![p] = D]
  /\ prev' = [prev EXCEPT ![p] = [batch |-> batch[p], ok |-> pc[p] = "done"]]
  /\ pc' = [pc EXCEPT ![p] = at]
  /\ ti' = [ti EXCEPT ![p] = 1]
  /\ existingEntities' = [existingEntities EXCEPT ![p] = {}]
  /\ rows' = [rows EXCEPT ![p] = <<>>]
  /\ numUpToDate' = [numUpToDate EXCEPT ![p] = 0]
  /\ ncalls' = ncalls + 1
  /\ cid' = [cid EXCEPT ![p] = ncalls + 1]
  /\ nPersist' = [nPersist EXCEPT ![p] = 0]
  /\ store0' = [store0 EXCEPT ![p] = store]
  /\ evs0' = [evs0 EXCEPT ![p] = Len(events)]
  /\ op' = [op EXCEPT ![p] = kind]
  /\ conn0' = [conn0 EXCEPT ![p] = connected]
  /\ UNCHANGED <<store, events, commits, connected, dbPath, removes>>
  /\ UNCHANGED protoVars

\* saveOne(tableName, id, record): saveMany of a one-table, one-key batch.
SaveOneCall(p) ==
  /\ \E tableName \in TableNames, id \in Ids, s \in OneShapes :
       Enter(p, "saveOne",
             <<[tableName |-> tableName, entities |-> [k \in {id} |-> Shape(s, k)]]>>,
             <<>>, "loop")
  /\ UNCHANGED log

\* deleteAllEntities(deleteSpec).
DeleteAllCall(p) ==
  /\ \E D \in DeleteSpecs : Enter(p, "deleteAllEntities", NoBatch, D, "dloop")
  /\ UNCHANGED log

\* deleteEntity(tableName, id).
DeleteEntityCall(p) ==
  /\ \E tableName \in TableNames, id \in Ids :
       Enter(p, "deleteEntity", NoBatch, <<[tableName |-> tableName, ids |-> {id}]>>, "dloop")
  /\ UNCHANGED log

DeleteAt(p) == deleteSpec[p][ti[p]]

DeleteLine(p, kind) ==
  [call |-> cid[p], tableName |-> DeleteAt(p).tableName, kind |-> kind,
   saved |-> 0, total |-> Cardinality(DeleteAt(p).ids), upToDate |-> 0]

\* A table without a model: log and go on to the next table (deleteEntity
\* logs and returns).
DeleteSkipUnknown(p) ==
  /\ pc[p] = "dloop"
  /\ ti[p] <= Len(deleteSpec[p])
  /\ DeleteAt(p).tableName \notin modelMap
  /\ log' = Append(log, DeleteLine(p, "dunno"))
  /\ ti' = [ti EXCEPT ![p] = ti[p] + 1]
  /\ UNCHANGED <<store, events, commits, pc, batch, existingEntities, rows, numUpToDate,
                 cid, ncalls, prev, nPersist, store0, evs0, lifeVars>>
  /\ UNCHANGED protoVars

\* The rows of a table that are left when the rows with these ids are removed.
Without(tbl, ids) == { r \in tbl : r.id \notin ids }

\* Mutant of RemoveOk: a commit event for the removed ids is dispatched.
RemoveOkDispatch(p) ==
  /\ pc[p] = "dloop"
  /\ ti[p] <= Len(deleteSpec[p])
  /\ DeleteAt(p).tableName \in modelMap
  /\ connected
  /\ store' = [store EXCEPT ![DeleteAt(p).tableName] = Without(@, DeleteAt(p).ids)]
  /\ events' = Append(events, [tableName |-> DeleteAt(p).tableName,
                               updated |-> DeleteAt(p).ids, call |-> cid[p]])
  /\ removes' = Append(removes, [call |-> cid[p], tableName |-> DeleteAt(p).tableName])
  /\ ti' = [ti EXCEPT ![p] = ti[p] + 1]
  /\ UNCHANGED <<log, commits, pc, batch, existingEntities, rows, numUpToDate,
                 cid, ncalls, prev, nPersist, store0, evs0, connected, op, deleteSpec,
                 dbPath, conn0>>
  /\ UNCHANGED protoVars

\* repo.remove(toRemove) resolves: the rows with the given ids are gone.
RemoveOk(p) ==
  /\ pc[p] = "dloop"
  /\ ti[p] <= Len(deleteSpec[p])
  /\ DeleteAt(p).tableName \in modelMap
  /\ connected
  /\ store' = [store EXCEPT ![DeleteAt(p).tableName] = Without(@, DeleteAt(p).ids)]
  /\ removes' = Append(removes, [call |-> cid[p], tableName |-> DeleteAt(p).tableName])
  /\ ti' = [ti EXCEPT ![p] = ti[p] + 1]
  /\ UNCHANGED <<events, log, commits, pc, batch, existingEntities, rows, numUpToDate,
                 cid, ncalls, prev, nPersist, store0, evs0, connected, op, deleteSpec,
                 dbPath, conn0>>
  /\ UNCHANGED protoVars

\* repo.remove(toRemove) rejects, after removing some of the rows: the
\* rejection leaves the method.
RemoveFail(p) ==
  /\ pc[p] = "dloop"
  /\ ti[p] <= Len(deleteSpec[p])
  /\ DeleteAt(p).tableName \in modelMap
  /\ connected
  /\ \E gone \in (SUBSET DeleteAt(p).ids) \ {DeleteAt(p).ids} :
       store' = [store EXCEPT ![DeleteAt(p).tableName] = Without(@, gone)]
  /\ pc' = [pc EXCEPT ![p] = "failed"]
  /\ UNCHANGED <<events, log, commits, batch, ti, existingEntities, rows, numUpToDate,
                 cid, ncalls, prev, nPersist, store0, evs0, lifeVars>>
  /\ UNCHANGED protoVars

\* conn.getRepository(Model) on a closed connection throws.
DeleteClosed(p) ==
  /\ pc[p] = "dloop"
  /\ ti[p] <= Len(deleteSpec[p])
  /\ DeleteAt(p).tableName \in modelMap
  /\ ~connected
  /\ pc' = [pc EXCEPT ![p] = "failed"]
  /\ UNCHANGED <<store, events, log, commits, batch, ti, existingEntities, rows, numUpToDate,
                 cid, ncalls, prev, nPersist, store0, evs0, lifeVars>>
  /\ UNCHANGED protoVars

DeleteReturn(p) ==
  /\ pc[p] = "dloop"
  /\ ti[p] > Len(deleteSpec[p])
  /\ pc' = [pc EXCEPT ![p] = "done"]
  /\ UNCHANGED <<store, events, log, commits, batch, ti, existingEntities, rows, numUpToDate,
                 cid, ncalls, prev, nPersist, store0, evs0, lifeVars>>
  /\ UNCHANGED protoVars

\* saveMany on a closed connection: conn.getRepository(Model) throws.
FetchClosed(p) ==
  /\ pc[p] = "loop"
  /\ ti[p] <= Len(batch[p])
  /\ TableAt(p).tableName \in modelMap
  /\ ~connected
  /\ pc' = [pc EXCEPT ![p] = "failed"]
  /\ UNCHANGED <<store, events, log, commits, batch, ti, existingEntities, rows, numUpToDate,
                 cid, ncalls, prev, nPersist, store0, evs0, lifeVars>>
  /\ UNCHANGED protoVars

CloseLine(p, kind) ==
  [call |-> cid[p], tableName |-> "", kind |-> kind, saved |-> 0, total |-> 0, upToDate |-> 0]

\* close(): log, then await conn.close().
CloseCall(p) ==
  /\ Enter(p, "close", NoBatch, <<>>, "closing")
  /\ log' = Append(log, [call |-> ncalls + 1, tableName |-> "", kind |-> "closing",
                         saved |-> 0, total |-> 0, upToDate |-> 0])

\* conn.close() resolves: log, forget the path.
CloseOk(p) ==
  /\ pc[p] = "closing"
  /\ connected
  /\ connected' = FALSE
  /\ log' = Append(log, CloseLine(p, "closed"))
  /\ dbPath' = "null"
  /\ pc' = [pc EXCEPT ![p] = "done"]
  /\ UNCHANGED <<store, events, commits, batch, ti, existingEntities, rows, numUpToDate,
                 cid, ncalls, prev, nPersist, store0, evs0, op, deleteSpec, removes, conn0>>
  /\ UNCHANGED protoVars

\* conn.close() on a connection that is not connected rejects.
CloseFail(p) ==
  /\ pc[p] = "closing"
  /\ ~connected
  /\ pc' = [pc EXCEPT ![p] = "failed"]
  /\ UNCHANGED <<store, events, log, commits, batch, ti, existingEntities, rows, numUpToDate,
                 cid, ncalls, prev, nPersist, store0, evs0, lifeVars>>
  /\ UNCHANGED protoVars

Next ==
  \E p \in Procs :
    \/ Call(p)
    \/ SkipUnknown(p)
    \/ FetchUpToDate(p)
    \/ FetchQueue(p)
    \/ PersistOk(p)
    \/ PersistFail(p)
    \/ Dispatch(p)
    \/ Return(p)

Spec == Init /\ [][Next]_vars

SpecSeq == InitSeq /\ [][Next]_vars

\* One caller using saveOne (and through it saveMany), deleteAllEntities,
\* deleteEntity and close.
NextLife ==
  \E p \in Procs :
    \/ SaveOneCall(p)
    \/ SkipUnknown(p)
    \/ FetchUpToDate(p)
    \/ FetchQueue(p)
    \/ FetchClosed(p)
    \/ PersistOk(p)
    \/ PersistFail(p)
    \/ Dispatch(p)
    \/ Return(p)
    \/ DeleteAllCall(p)
    \/ DeleteEntityCall(p)
    \/ DeleteSkipUnknown(p)
    \/ RemoveOk(p)
    \/ RemoveFail(p)
    \/ DeleteClosed(p)
    \/ DeleteReturn(p)
    \/ CloseCall(p)
    \/ CloseOk(p)
    \/ CloseFail(p)

SpecLife == InitSeq /\ [][NextLife]_vars

\* ------------------------------------------- itch: protocol, actions
\* Requests are followed one at a time: an invocation of the handler shares
\* nothing with another one but ms.websocket, which it only reads.

\* The db is loaded and idle; the app runs in development or in production,
\* and the websocket is up or not yet.
InitProto ==
  /\ store \in InitStores
  /\ events = <<>>
  /\ log = <<>>
  /\ commits = <<>>
  /\ Locals({})
  /\ \E dev \in BOOLEAN, ws \in WebSockets : ProtoStart(dev, ws)

\* elements.slice(1) and elements[0] of handleRequest.
Elements(request) == Tail(RouteElements(request.url))

FirstEl(request) == Head(RouteElements(request.url))

\* protocolHandler(req, cb) is invoked and handleRequest(req) runs up to its
\* first suspension.
Receive(request, at) ==
  /\ hpc \in {"idle", "responded", "uncaught"}
  /\ nreq < MaxReq
  /\ nreq' = nreq + 1
  /\ req' = <<request>>
  /\ hpc' = at
  /\ upstream' = <<>>
  /\ cbs' = <<>>
  /\ UNCHANGED <<development, websocket>>
  /\ UNCHANGED vars

Fulfilled(response) == <<[state |-> "fulfilled", value |-> response]>>

Rejected(e) == <<[state |-> "rejected", value |-> e]>>

\* case "api": handleAPIRequest runs to its end within the call.
HandleRequestApi ==
  \E request \in Requests :
    /\ FirstEl(request) = Str("api")
    /\ Receive(request, "settled")
    /\ res' = Fulfilled(ApiResponse(handleAPIRequest(request, Elements(request), websocket)))

\* default, env.development: http.get(upstream, ...) is issued.
HandleRequestUpstream ==
  \E request \in Requests :
    /\ FirstEl(request) # Str("api")
    /\ development
    /\ Receive(request, "upstream")
    /\ res' = <<>>

\* default, production: fs.readFile(fsPath, ...) is issued.
HandleRequestAsset ==
  \E request \in Requests :
    /\ FirstEl(request) # Str("api")
    /\ ~development
    /\ Receive(request, "readFile")
    /\ res' = <<>>

\* The dev server answers: the callback of http.get resolves the promise.
UpstreamAnswer ==
  /\ hpc = "upstream"
  /\ \E msg \in IncomingMessages :
       /\ upstream' = <<msg>>
       /\ res' = Fulfilled(UpstreamResponse(msg))
  /\ hpc' = "settled"
  /\ UNCHANGED <<development, websocket, nreq, req, cbs>>
  /\ UNCHANGED vars

\* The request to the dev server fails: the ClientRequest emits 'error', no
\* listener is attached and reject is never called, so the promise stays
\* pending and the error is an uncaught exception of the main process.
UpstreamError ==
  /\ hpc = "upstream"
  /\ hpc' = "uncaught"
  /\ UNCHANGED <<development, websocket, nreq, req, upstream, res, cbs>>
  /\ UNCHANGED vars

\* fs.readFile calls back with the data.
ReadFileOk ==
  /\ hpc = "readFile"
  /\ \E content \in Contents :
       res' = Fulfilled(FileResponse(AssetElements(Elements(req[1])), content))
  /\ hpc' = "settled"
  /\ UNCHANGED <<development, websocket, nreq, req, upstream, cbs>>
  /\ UNCHANGED vars

\* fs.readFile calls back with an error: reject(err).
ReadFileErr ==
  /\ hpc = "readFile"
  /\ res' = Rejected(<<"Error: ", "ENOENT">>)
  /\ hpc' = "settled"
  /\ UNCHANGED <<development, websocket, nreq, req, upstream, cbs>>
  /\ UNCHANGED vars

\* .then(res => { cb(res); }).
Then ==
  /\ hpc = "settled"
  /\ res[1].state = "fulfilled"
  /\ cbs' = Append(cbs, res[1].value)
  /\ hpc' = "responded"
  /\ UNCHANGED <<development, websocket, nreq, req, upstream, res>>
  /\ UNCHANGED vars

\* .catch(e => { cb({statusCode: 500, ...}); }).
Catch ==
  /\ hpc = "settled"
  /\ res[1].state = "rejected"
  /\ cbs' = Append(cbs, ErrorResponse(res[1].value))
  /\ hpc' = "responded"
  /\ UNCHANGED <<development, websocket, nreq, req, upstream, res>>
  /\ UNCHANGED vars

NextProto ==
  \/ HandleRequestApi
  \/ HandleRequestUpstream
  \/ HandleRequestAsset
  \/ UpstreamAnswer
  \/ UpstreamError
  \/ ReadFileOk
  \/ ReadFileErr
  \/ Then
  \/ Catch

allVars == <<vars, protoVars>>

SpecProto == InitProto /\ [][NextProto]_allVars

\* The event loop runs every pending promise reaction, and every request
\* to the dev server and every file read ends, one way or the other.
SpecProtoFair ==
  /\ InitProto
  /\ [][NextProto]_allVars
  /\ WF_allVars(Then)
  /\ WF_allVars(Catch)
  /\ WF_allVars(UpstreamAnswer \/ UpstreamError)
  /\ WF_allVars(ReadFileOk \/ ReadFileErr)

\* ------------------------------------------------------------- claims

Running(p) == pc[p] \in {"loop", "persist", "dispatch", "done", "failed"}

\* The caller's current call applies the batch its previous call applied,
\* that call returned normally, and no other call was made since it began.
SecondApplication(p) ==
  /\ Running(p)
  /\ prev[p].ok
  /\ prev[p].batch = batch[p]
  /\ cid[p] = 2
  /\ ncalls = 2

\* C1: idempotence of saveMany: applying a batch a second time calls
\* repo.persist zero times, dispatches no dbCommit and leaves the store as
\* the first application left it.
C1_Idempotence ==
  \A p \in Procs :
    SecondApplication(p) =>
      /\ nPersist[p] = 0
      /\ Len(events) = evs0[p]
      /\ store = store0[p]

\* The keys of the table being processed whose record went down the merge
\* path: a row was fetched for the key and compareRecords said it differs.
MergedKeys(p) ==
  {k \in DOMAIN TableAt(p).entities :
     \E ex \in existingEntities[p] :
        /\ ex.id = k
        /\ ~compareRecords(ex, TableAt(p).entities[k], getColumns(TableAt(p).tableName))}

\* C2: merge correctness: once the persist of the queue has succeeded, the
\* row stored under each merged key has the incoming value for every field
\* the incoming record carries and the previously stored value for the rest.
C2_MergeCorrect ==
  \A p \in Procs :
    pc[p] = "dispatch" =>
      \A k \in MergedKeys(p) :
        LET entity == TableAt(p).entities[k]
            ex == CHOOSE e \in existingEntities[p] : e.id = k
        IN \E r \in store[TableAt(p).tableName] :
             /\ r.id = k
             /\ \A c \in {"a", "b"} :
                  r[c] = IF c \in DOMAIN entity THEN entity[c] ELSE ex[c]

\* The log holds the summary line (line 122) of this call for the table.
Processed(p, tableName) ==
  \E i \in 1..Len(log) :
    /\ log[i].call = cid[p]
    /\ log[i].tableName = tableName
    /\ log[i].kind = "saved"

\* C3: failure isolation: when the persist of one table of a batch has
\* failed, every other registered table of the batch has still been
\* processed to its own outcome.
C3_FailureIsolation ==
  \A p \in Procs :
    pc[p] = "failed" =>
      \A i \in 1..Len(batch[p]) :
        (i # ti[p] /\ batch[p][i].tableName \in modelMap)
          => Processed(p, batch[p][i].tableName)

\* The entity maps a batch holds for a table.
Touches(B, tableName) == \E i \in 1..Len(B) : B[i].tableName = tableName

\* C4: serializability of same-table batches: when two calls that ran
\* concurrently have both returned, every table both batches touch holds what
\* running the two batches one after the other, in one of the two orders,
\* would have left in it.
C4_Serializable ==
  \A p, q \in Procs :
    (/\ p # q
     /\ pc[p] = "done" /\ pc[q] = "done"
     /\ cid[p] = 1 /\ cid[q] = 2 /\ ncalls = 2) =>
      \A T \in modelMap :
        (Touches(batch[p], T) /\ Touches(batch[q], T)) =>
          \/ store[T] = SaveManyStore(SaveManyStore(store0[p], batch[p]), batch[q])[T]
          \/ store[T] = SaveManyStore(SaveManyStore(store0[p], batch[q]), batch[p])[T]

\* The call is between its fetch and the end of its iteration for the table.
InCycle(p, tableName) ==
  /\ pc[p] \in {"persist", "dispatch"}
  /\ TableAt(p).tableName = tableName

\* C5: per-table mutual exclusion: at most one load-compare-write cycle is in
\* flight for a table.
C5_MutualExclusion ==
  \A T \in modelMap : \A p, q \in Procs :
    (InCycle(p, T) /\ InCycle(q, T)) => p = q

Range(f) == {f[i] : i \in DOMAIN f}

\* The dbCommit actions the caller's current call dispatched for a table.
EventsFor(p, tableName) ==
  {i \in 1..Len(events) : events[i].call = cid[p] /\ events[i].tableName = tableName}

\* C6: commit-event content: once a table with new or changed records has
\* been processed, the call has dispatched exactly one dbCommit for it, whose
\* `updated` is exactly the keys of the new or changed records.
C6_EventContent ==
  \A p \in Procs :
    (pc[p] \in {"loop", "done"} /\ ti[p] > 1) =>
      LET T == batch[p][ti[p] - 1].tableName
          changed == ChangedKeys(existingEntities[p], T, batch[p][ti[p] - 1].entities)
      IN (T \in modelMap /\ changed # {}) =>
           /\ Cardinality(EventsFor(p, T)) = 1
           /\ \A i \in EventsFor(p, T) :
                /\ Range(events[i].updated) = changed
                /\ Len(events[i].updated) = Cardinality(changed)

Committed(call, tableName) ==
  \E j \in 1..Len(commits) : commits[j] = [call |-> call, tableName |-> tableName]

\* C7: commit after write: every dbCommit dispatched is for a (call, table)
\* whose persist had succeeded, and a call whose persist failed has
\* dispatched no dbCommit for that table.
C7_CommitAfterWrite ==
  /\ \A i \in 1..Len(events) : Committed(events[i].call, events[i].tableName)
  /\ \A p \in Procs :
       pc[p] = "failed" => EventsFor(p, TableAt(p).tableName) = {}

\* A call dispatched the dbCommit of its first table and its persist of the
\* second table failed.
C7_Witness ==
  \E p \in Procs :
    /\ pc[p] = "failed"
    /\ ti[p] = 2
    /\ EventsFor(p, batch[p][1].tableName) # {}

CommitIndex(e) ==
  CHOOSE j \in 1..Len(commits) : commits[j] = [call |-> e.call, tableName |-> e.tableName]

\* C8: commit-event ordering: the dbCommit actions of a table are dispatched
\* in the order in which their persists committed.
C8_EventOrder ==
  \A i, j \in 1..Len(events) :
    (i < j /\ events[i].tableName = events[j].tableName
       /\ Committed(events[i].call, events[i].tableName)
       /\ Committed(events[j].call, events[j].tableName))
      => CommitIndex(events[i]) < CommitIndex(events[j])

\* The batch without the tables that have no Model.
Registered(B) == SelectSeq(B, LAMBDA e : e.tableName \in modelMap)

\* The (tableName, updated) pairs the current call dispatched, in order.
Dispatched(p) ==
  [i \in 1..(Len(events) - evs0[p]) |->
     [tableName |-> events[evs0[p] + i].tableName, updated |-> events[evs0[p] + i].updated]]

\* C9: unknown tables are skipped: a call never fails at a table without
\* Model, and a call that returned has left the store and dispatched the
\* dbCommit actions exactly as the batch without its unknown tables does.
C9_UnknownSkipped ==
  \A p \in Procs :
    /\ pc[p] = "failed" => TableAt(p).tableName \in modelMap
    /\ pc[p] = "done" =>
         /\ store = SaveManyStore(store0[p], Registered(batch[p]))
         /\ Dispatched(p) = SaveManyEvents(store0[p], Registered(batch[p]))

\* A call whose batch starts with an unknown table returned, having changed
\* the store and dispatched a dbCommit for the registered table after it.
C9_Witness ==
  \E p \in Procs :
    /\ pc[p] = "done"
    /\ batch[p][1].tableName \notin modelMap
    /\ store # store0[p]
    /\ Len(events) > evs0[p]

\* C10: atomic upsert: when the persist of a table's queue has failed, the
\* table holds what it held before the call.
C10_AtomicUpsert ==
  \A p \in Procs :
    pc[p] = "failed" =>
      store[TableAt(p).tableName] = store0[p][TableAt(p).tableName]

\* The table whose iteration the call has just finished is a registered one,
\* so existingEntities and rows are those of that iteration.
AfterTable(p) ==
  /\ pc[p] \in {"loop", "done"}
  /\ ti[p] > 1
  /\ batch[p][ti[p] - 1].tableName \in modelMap

CommitsOf(p) == {j \in 1..Len(commits) : commits[j].call = cid[p]}

\* C11: comparator short-circuit: when every incoming record of a table was
\* found stored and up to date, the call has made no repo.persist call for
\* the table, dispatched no dbCommit for it and left its rows as they were.
C11_ShortCircuit ==
  \A p \in Procs :
    AfterTable(p) =>
      LET T == batch[p][ti[p] - 1].tableName
      IN ChangedKeys(existingEntities[p], T, batch[p][ti[p] - 1].entities) = {} =>
           /\ nPersist[p] = Cardinality(CommitsOf(p))
           /\ ~Committed(cid[p], T)
           /\ EventsFor(p, T) = {}
           /\ store[T] = store0[p][T]

\* A second table of a batch was found up to date after the first was written.
C11_Witness ==
  \E p \in Procs :
    /\ AfterTable(p)
    /\ ti[p] = 3
    /\ ChangedKeys(existingEntities[p], batch[p][2].tableName, batch[p][2].entities) = {}
    /\ nPersist[p] = 1

\* The keys of the table being processed that reach rows.push, ascending.
QueuedKeys(p) ==
  KeysFrom([k \in ChangedKeys(existingEntities[p], TableAt(p).tableName,
                              TableAt(p).entities) |-> TRUE], 1)

\* C16: id stability: every row queued for a key carries that key as its id,
\* on the create path and on the merge path.
C16_IdStable ==
  \A p \in Procs :
    pc[p] \in {"persist", "dispatch"} => Pluck(rows[p]) = QueuedKeys(p)

\* The keys of the table being processed for which no row was fetched.
CreatedKeys(p) ==
  {k \in DOMAIN TableAt(p).entities : \A ex \in existingEntities[p] : ex.id # k}

Before(p) == SubSeq(batch[p], 1, ti[p] - 1)

\* C19: commit isolation: when the persist of a table has failed, every table
\* processed before it holds what this call wrote to it and the dbCommit
\* actions of those tables stay dispatched.
C19_CommitIsolation ==
  \A p \in Procs :
    pc[p] = "failed" =>
      /\ \A i \in 1..(ti[p] - 1) :
           batch[p][i].tableName \in modelMap =>
             store[batch[p][i].tableName]
               = SaveManyStore(store0[p], Before(p))[batch[p][i].tableName]
      /\ Dispatched(p) = SaveManyEvents(store0[p], Before(p))

\* The persist of the second table failed after the first table was written
\* and its dbCommit dispatched.
C19_Witness ==
  \E p \in Procs :
    /\ pc[p] = "failed"
    /\ ti[p] = 2
    /\ batch[p][1].tableName \in modelMap
    /\ store[batch[p][1].tableName] # store0[p][batch[p][1].tableName]
    /\ Len(events) > evs0[p]

\* The summary lines (line 122) the current call logged for a table.
SummaryOf(p, tableName) ==
  {i \in 1..Len(log) :
     log[i].call = cid[p] /\ log[i].tableName = tableName /\ log[i].kind = "saved"}

\* C20: counter partition: every incoming id is either queued or counted up
\* to date, and the logged `saved` count is the number of rows handed to
\* repo.persist.
C20_CounterPartition ==
  \A p \in Procs :
    /\ pc[p] \in {"persist", "dispatch"} =>
         Len(rows[p]) + numUpToDate[p] = Cardinality(DOMAIN TableAt(p).entities)
    /\ AfterTable(p) =>
         /\ Cardinality(SummaryOf(p, batch[p][ti[p] - 1].tableName)) = 1
         /\ \A i \in SummaryOf(p, batch[p][ti[p] - 1].tableName) :
              /\ log[i].saved = Len(rows[p])
              /\ log[i].saved + log[i].upToDate = log[i].total
              /\ log[i].total = Cardinality(DOMAIN batch[p][ti[p] - 1].entities)

\* A table was logged with one record saved and one skipped as up to date.
C20_Witness ==
  \E p \in Procs :
    /\ AfterTable(p)
    /\ \E i \in SummaryOf(p, batch[p][ti[p] - 1].tableName) :
         log[i].saved = 1 /\ log[i].upToDate = 1

Deleting(p) == op[p] \in {"deleteAllEntities", "deleteEntity"}

Removed(p, tableName) ==
  \E j \in 1..Len(removes) : removes[j] = [call |-> cid[p], tableName |-> tableName]

\* C12: when the delete of one table of a deleteAllEntities call fails, the
\* deletes of the other registered tables of the same spec are still executed.
C12_DeleteIsolation ==
  \A p \in Procs :
    (op[p] = "deleteAllEntities" /\ conn0[p] /\ pc[p] = "failed") =>
      \A i \in 1..Len(deleteSpec[p]) :
        (i # ti[p] /\ deleteSpec[p][i].tableName \in modelMap) =>
          Removed(p, deleteSpec[p][i].tableName)

\* C14: a save or delete call made after close has completed does not return
\* normally, and changes neither the stored rows nor the published events.
C14_FailsAfterClose ==
  \A p \in Procs :
    (op[p] \in {"saveOne", "deleteAllEntities", "deleteEntity"} /\ ~conn0[p]) =>
      /\ pc[p] # "done"
      /\ store = store0[p]
      /\ Len(events) = evs0[p]

\* C15: a close call on a store that is already closed returns normally.
C15_CloseIdempotent ==
  \A p \in Procs :
    (op[p] = "close" /\ ~conn0[p]) => pc[p] # "failed"

\* C17: no execution of deleteAllEntities or deleteEntity publishes a commit
\* event, whether or not rows were removed.
C17_NoCommitOnDelete ==
  \A p \in Procs :
    Deleting(p) => /\ Len(events) = evs0[p]
                   /\ \A j \in 1..Len(events) : events[j].call # cid[p]

C17_Witness ==
  \E p \in Procs :
    /\ Deleting(p)
    /\ pc[p] = "done"
    /\ store # store0[p]
    /\ Len(events) > 0

\* The Origin headers of a request, whatever the case of their names.
OriginHeaders(request) ==
  { i \in DOMAIN request.headers : ToLowerCase(request.headers[i].k) = "origin" }

ItchOrigins(request) ==
  { i \in OriginHeaders(request) : StartsWith(request.headers[i].v, ItchPrefix) }

Route(url) == JoinNonEmpty(url.hostname, StripSlash(url.pathname))

IsApi(request) == FirstEl(request) = Str("api")

\* The response holds the secret of the websocket, as a field of its JSON
\* or anywhere in its text.
Discloses(response) ==
  /\ websocket # <<>>
  /\ \E j \in DOMAIN response.data :
       \/ response.data[j].secret = websocket[1].secret
       \/ \E n \in DOMAIN response.data[j].text :
            response.data[j].text[n] = websocket[1].secret

\* C21: the callback gets a response holding the websocket secret only for a
\* request with an Origin header starting with "itch:" whose route is exactly
\* api/websocket-address; an API request without such an origin gets 403, an
\* API request with one but for another route gets 404, both without the secret.
C21_SecretGuard ==
  \A i \in DOMAIN cbs :
    /\ Discloses(cbs[i]) =>
         /\ ItchOrigins(req[1]) # {}
         /\ Route(req[1].url) = <<"api", "/", "websocket-address">>
    /\ (IsApi(req[1]) /\ ItchOrigins(req[1]) = {}) =>
         (cbs[i].statusCode = 403 /\ ~Discloses(cbs[i]))
    /\ (/\ IsApi(req[1])
        /\ OriginHeaders(req[1]) # {}
        /\ ItchOrigins(req[1]) = OriginHeaders(req[1])
        /\ Route(req[1].url) # <<"api", "/", "websocket-address">>) =>
         (cbs[i].statusCode = 404 /\ ~Discloses(cbs[i]))

C21_Witness ==
  /\ nreq = MaxReq
  /\ cbs # <<>>
  /\ cbs[1].statusCode = 200
  /\ Discloses(cbs[1])

\* C22: for every request handed to the protocol handler the callback is
\* eventually invoked, and never twice: with what handleRequest resolved
\* with, or with a status-500 response when it rejected.
C22_ExactlyOnce ==
  /\ [](Len(cbs) <= 1)
  /\ [](cbs # <<>> =>
          IF res[1].state = "fulfilled" THEN cbs[1] = res[1].value
          ELSE cbs[1].statusCode = 500)
  /\ \A n \in 1..MaxReq : (nreq = n) ~> (nreq = n /\ Len(cbs) = 1)

====
